---- MODULE Spec2Model ----
(***************************************************************************)
(* Model of the ayon-toastnotify local notification service:               *)
(*   - the action callback registry   (api/notification_manager.py 18-39)  *)
(*   - the HTTP server and its worker (api/notification_manager.py 41-295) *)
(*   - the client and its fallback    (api/client.py 15-193)               *)
(*   - the registration made by the platform variant that supports action  *)
(*     buttons                        (api/platforms/windows.py 375-556)   *)
(*                                                                         *)
(* SpecRegistry      : threads calling register_action_callback and        *)
(*                     handle_action_callback concurrently.                *)
(* SpecLife/FairLife : one NotificationManager: start(), stop(), its       *)
(*                     worker thread and raw requests of other processes.  *)
(* Spec              : one ToastNotifyClient sending to that manager's     *)
(*                     server, with the in-process fallback.               *)
(* SpecServe         : a started server answering the requests of every    *)
(*                     route, action callbacks included, next to a client  *)
(*                     whose in-process dispatch registers handlers.       *)
(* SpecHealth        : check_service_health against a port that is free,   *)
(*                     being bound by the worker, or held by another       *)
(*                     process.                                            *)
(* SpecTaken         : start(), stop() and a client when another process   *)
(*                     holds http_port.                                    *)
(* SpecPost          : POST /notify from the parsed body to the dispatch.  *)
(* SpecAsync         : the module-level send_notification with async_send. *)
(* SpecPort          : get_toast_notify_port and the manager's constructor.*)
(* SpecAddon/FairAddon : the addon's initialize, tray_init, tray_start and *)
(*                     tray_exit.                                          *)
(* SpecWindows       : the Windows variant with or without BurntToast.     *)
(* SpecMac/FairMac   : the macOS variant: show_notification, the helper    *)
(*                     and the watcher thread (api/platforms/macos.py).    *)
(* SpecLinux         : the Linux variant behind the uniform call           *)
(*                     (api/platforms/linux_generic.py).                   *)
(* SpecReenter       : SpecRegistry with a handler that registers again.   *)
(***************************************************************************)
EXTENDS Naturals, Sequences, FiniteSets, TLC

\* ---------------------------------------------------------------- bounds
MaxOps     == 4   \* registry calls made in one behaviour of SpecRegistry
MaxSends   == 1   \* ToastNotifyClient.send_notification calls
MaxStarts  == 2   \* NotificationManager.start calls
MaxStops   == 2   \* NotificationManager.stop calls
MaxExt     == 2   \* raw HTTP requests sent by other local processes
MaxBacklog == 2   \* connections the listening socket queues before refusing
MaxChecks  == 2   \* ToastNotifyClient.check_service_health calls
MaxTimeout == 2   \* largest top-level timeout of a POST /notify body
MaxAllocs  == 2   \* get_toast_notify_port calls
MaxShows   == 3   \* show_notification calls on the macOS handler

\* ------------------------------------------------------------- constants
max_retries == 1
\* the port of fixed-port mode
http_port == 5127
\* the polls _process_alerter_response makes, one second apart
max_wait == 60

None == "None"

Threads  == {"t1", "t2"}
Ids      == {"n1", "n2"}
Actions  == {"yes", "default"}
\* what a caller-supplied handler does when it is invoked
Handlers == {"hReturn", "hRaise"}

Workers  == 1..MaxStarts
\* the name under which worker thread w makes its registry calls
WThread(w) == "w" \o ToString(w)
\* every thread that can be inside a registry call
RegistryThreads == Threads \cup {WThread(w) : w \in Workers}

VARIABLES
    \* registry (module globals of notification_manager.py)
    callbacks,      \* _action_callbacks: notification id -> handler, None = absent
    lock,           \* _action_callback_lock: owning thread or None
    tpc,            \* position of each thread in its registry call
    cur,            \* the thread's current (or last completed) registry call
    fired,          \* per id: number of handler invocations so far
    regCount,       \* per id: number of register_action_callback calls so far
    nops,           \* registry calls begun so far
    \* NotificationManager and its HTTP server
    running,        \* self.running
    thread,         \* self.thread: id of the worker last spawned, 0 = None
    server,         \* self.server: id of the server socket created, 0 = None
    platform_handler, \* self.platform_handler of the manager: "present" or None
    listening,      \* the socket bound to http_port and listening, 0 = port free
    connq,          \* connections queued on the listening socket, oldest first
    is_shut_down,   \* socketserver's __is_shut_down event of self.server
    shutdown_request, \* socketserver's __shutdown_request flag of self.server
    wpc,            \* position of each worker thread in _run_server
    wreq,           \* the request a worker is handling
    wresp,          \* the response a worker produced for the request it handled
    mpc,            \* position of the thread that calls start() and stop()
    stopInfo,       \* the current (or last) stop() call
    nstarts,        \* start() calls so far
    nstops,         \* stop() calls so far
    nexts,          \* raw requests sent so far by other local processes
    socks,          \* the server sockets of this manager that are open
    foreign,        \* another process holds http_port and listens on it
    env_port,       \* os.environ["AYON_TOASTNOTIFY_PORT"]: a string, None = unset
    \* ToastNotifyClient
    client_handler, \* what the platform_handler property yields: "present" or None
    cpc,            \* position of the client thread in send_notification
    call,           \* the current (or last completed) send_notification call
    inbox,          \* the HTTP response that reached the waiting client, or NoResp
    nsends,         \* send_notification calls so far
    hpc,            \* position of the thread inside check_service_health
    hc,             \* the current (or last completed) check_service_health call
    \* one POST /notify request on its way to the platform dispatch
    notification_timeout, \* self.notification_timeout of the manager
    system,         \* platform.system().lower() of the process
    notification_data, \* the parsed body of the request
    dispatch,       \* the arguments show_notification of the platform got
    \* the module-level send_notification with async_send
    apc,            \* position of the thread running _send_async
    acall,          \* the current (or last) asynchronous call
    \* port allocation and the addon's start-up and shutdown
    settings,       \* the addon settings: use_fixed_port, http_port, and the
                    \* "_port" entry tray_init adds (predetermined, 0 = absent)
    gpc,            \* position inside get_toast_notify_port
    port,           \* what the last get_toast_notify_port call returned, 0 = none
    branch,         \* the branch that call took: "fixed", "probe" or "fallback"
    nallocs,        \* get_toast_notify_port calls so far
    manager_port,   \* self.http_port of the manager, 0 = not constructed
    shared_handler, \* ToastNotifyAddon._platform_handler: "present" or None
    script_port,    \* the port written into ToastHandler.ps1, None = no script
    addon_pc,       \* position of the main thread in the addon's methods
    \* the platform handlers
    burnt_toast_available, \* self.burnt_toast_available of the Windows handler
    response_file,  \* the macOS response file: None = absent, else its content
    helper,         \* the macOS helper process: "none", "running" or "wrote"
    cleanup_event,  \* self._cleanup_event of the macOS handler is set
    watch           \* the thread running _process_alerter_response

regVars == <<callbacks, lock, tpc, cur, fired, regCount, nops>>

\* the variables added to the manager's and to the client's state
postVars   == <<notification_timeout, system, notification_data, dispatch>>
\* the state that start(), stop() and the worker's socket handling leave alone
asyncVars  == <<apc, acall>>
addonVars  == <<settings, gpc, port, branch, nallocs, manager_port, shared_handler,
               script_port, addon_pc>>
platVars   == <<burnt_toast_available, response_file, helper, cleanup_event,
               watch>>
restVars   == <<env_port, postVars, asyncVars, addonVars, platVars>>
portVars   == <<socks, foreign, restVars>>
healthVars == <<hpc, hc>>

mgrVars == <<running, thread, server, platform_handler, listening, connq,
             is_shut_down, shutdown_request, wpc, wreq, wresp, mpc, stopInfo,
             nstarts, nstops, nexts, socks, foreign>>
srvVars == <<running, thread, server, platform_handler, listening, connq,
             is_shut_down, shutdown_request, wpc, wreq, wresp, mpc, stopInfo,
             nstarts, nstops, nexts, socks, foreign, restVars>>
cliVars == <<client_handler, cpc, call, inbox, nsends, hpc, hc>>

vars == <<callbacks, lock, tpc, cur, fired, regCount, nops,
          running, thread, server, platform_handler, listening, connq,
          is_shut_down, shutdown_request, wpc, wreq, wresp, mpc, stopInfo,
          nstarts, nstops, nexts, socks, foreign, restVars,
          client_handler, cpc, call, inbox, nsends, hpc, hc>>

NoCall == [op |-> "none", id |-> None, h |-> None, a |-> None, cb |-> None,
           ret |-> "none", inv |-> 0, invArg |-> None, snap |-> <<>>,
           left |-> FALSE, same |-> TRUE, reg |-> FALSE]

RegInit ==
    /\ callbacks = [i \in Ids |-> None]
    /\ lock = None
    /\ tpc = [t \in RegistryThreads |-> "idle"]
    /\ cur = [t \in RegistryThreads |-> NoCall]
    /\ fired = [i \in Ids |-> 0]
    /\ regCount = [i \in Ids |-> 0]
    /\ nops = 0

\* ------------------------------------------- register_action_callback(id, h)
RegisterCall(t, i, h) ==
    /\ tpc[t] = "idle"
    /\ nops < MaxOps
    /\ nops' = nops + 1
    /\ cur' = [cur EXCEPT ![t] = [NoCall EXCEPT !.op = "register", !.id = i, !.h = h]]
    /\ tpc' = [tpc EXCEPT ![t] = "r_acquire"]
    /\ UNCHANGED <<callbacks, lock, fired, regCount>>
    /\ UNCHANGED <<srvVars, cliVars>>

\* with _action_callback_lock:
RegisterAcquire(t) ==
    /\ tpc[t] = "r_acquire"
    /\ lock = None
    /\ lock' = t
    /\ tpc' = [tpc EXCEPT ![t] = "r_store"]
    /\ UNCHANGED <<callbacks, cur, fired, regCount, nops>>
    /\ UNCHANGED <<srvVars, cliVars>>

\* _action_callbacks[notification_id] = callback ; leave the with block
RegisterStore(t) ==
    /\ tpc[t] = "r_store"
    /\ callbacks' = [callbacks EXCEPT ![cur[t].id] = cur[t].h]
    /\ regCount' = [regCount EXCEPT ![cur[t].id] = @ + 1]
    /\ lock' = None
    /\ tpc' = [tpc EXCEPT ![t] = "idle"]
    /\ UNCHANGED <<cur, fired, nops>>
    /\ UNCHANGED <<srvVars, cliVars>>

\* --------------------------------------------- handle_action_callback(id, a)
HandleCall(t, i, a) ==
    /\ tpc[t] = "idle"
    /\ nops < MaxOps
    /\ nops' = nops + 1
    /\ cur' = [cur EXCEPT ![t] = [NoCall EXCEPT !.op = "handle", !.id = i, !.a = a,
                                                !.reg = (callbacks[i] # None)]]
    /\ tpc' = [tpc EXCEPT ![t] = "h_acquire"]
    /\ UNCHANGED <<callbacks, lock, fired, regCount>>
    /\ UNCHANGED <<srvVars, cliVars>>

\* with _action_callback_lock:
HandleAcquire(t) ==
    /\ tpc[t] = "h_acquire"
    /\ lock = None
    /\ lock' = t
    /\ tpc' = [tpc EXCEPT ![t] = "h_get"]
    /\ UNCHANGED <<callbacks, cur, fired, regCount, nops>>
    /\ UNCHANGED <<srvVars, cliVars>>

\* callback = _action_callbacks.get(notification_id) ; if callback:
HandleGet(t) ==
    /\ tpc[t] = "h_get"
    /\ cur' = [cur EXCEPT ![t].cb = callbacks[cur[t].id], ![t].snap = callbacks]
    /\ tpc' = [tpc EXCEPT ![t] = IF callbacks[cur[t].id] # None THEN "h_call"
                                                               ELSE "h_exit"]
    /\ UNCHANGED <<callbacks, lock, fired, regCount, nops>>
    /\ UNCHANGED <<srvVars, cliVars>>

\* callback(action_id): the handler starts to execute
HandleInvoke(t) ==
    /\ tpc[t] = "h_call"
    /\ fired' = [fired EXCEPT ![cur[t].id] = @ + 1]
    /\ cur' = [cur EXCEPT ![t].inv = @ + 1, ![t].invArg = cur[t].a]
    /\ tpc' = [tpc EXCEPT ![t] = "h_running"]
    /\ UNCHANGED <<callbacks, lock, regCount, nops>>
    /\ UNCHANGED <<srvVars, cliVars>>

\* the handler returned: _action_callbacks.pop(notification_id, None); return True
HandlerReturns(t) ==
    /\ tpc[t] = "h_running"
    /\ cur[t].cb = "hReturn"
    /\ callbacks' = [callbacks EXCEPT ![cur[t].id] = None]
    /\ cur' = [cur EXCEPT ![t].ret = "true"]
    /\ tpc' = [tpc EXCEPT ![t] = "h_exit"]
    /\ UNCHANGED <<lock, fired, regCount, nops>>
    /\ UNCHANGED <<srvVars, cliVars>>

\* the handler raised: except Exception: log.error(...) ; falls to return False
HandlerRaises(t) ==
    /\ tpc[t] = "h_running"
    /\ cur[t].cb = "hRaise"
    /\ cur' = [cur EXCEPT ![t].ret = "false"]
    /\ tpc' = [tpc EXCEPT ![t] = "h_exit"]
    /\ UNCHANGED <<callbacks, lock, fired, regCount, nops>>
    /\ UNCHANGED <<srvVars, cliVars>>

\* leave the with block (the lock is released) and return
HandleExit(t) ==
    /\ tpc[t] = "h_exit"
    /\ lock' = None
    /\ cur' = [cur EXCEPT ![t].ret  = IF @ = "none" THEN "false" ELSE @,
                          ![t].left = (callbacks[cur[t].id] # None),
                          ![t].same = (callbacks = cur[t].snap)]
    /\ tpc' = [tpc EXCEPT ![t] = "idle"]
    /\ UNCHANGED <<callbacks, fired, regCount, nops>>
    /\ UNCHANGED <<srvVars, cliVars>>

RegNext ==
    \/ \E t \in Threads, i \in Ids, h \in Handlers : RegisterCall(t, i, h)
    \/ \E t \in Threads : RegisterAcquire(t)
    \/ \E t \in Threads : RegisterStore(t)
    \/ \E t \in Threads, i \in Ids, a \in Actions : HandleCall(t, i, a)
    \/ \E t \in Threads : HandleAcquire(t)
    \/ \E t \in Threads : HandleGet(t)
    \/ \E t \in Threads : HandleInvoke(t)
    \/ \E t \in Threads : HandlerReturns(t)
    \/ \E t \in Threads : HandlerRaises(t)
    \/ \E t \in Threads : HandleExit(t)

\* ------------------------------------------------------ registry claims
HandleDone(t) == tpc[t] = "idle" /\ cur[t].op = "handle"

\* C1: after register_action_callback(id, h), one handle_action_callback(id, a)
\* invokes h exactly once with argument a, returns true and removes the entry;
\* on an id without registration it returns false, invokes nothing and leaves
\* the registry unchanged.
C1_ResolveFiresReturnsTrueRemoves ==
    \A t \in Threads : HandleDone(t) =>
        IF cur[t].cb # None
        THEN /\ cur[t].inv = 1
             /\ cur[t].invArg = cur[t].a
             /\ cur[t].ret = "true"
             /\ ~cur[t].left
        ELSE /\ cur[t].inv = 0
             /\ cur[t].ret = "false"
             /\ cur[t].same

\* C2: whatever the handler does (return or raise), a registration fires at
\* most once: the handler of an id is never invoked more often than the id
\* was registered.
C2_FiresAtMostOncePerRegistration ==
    \A i \in Ids : fired[i] <= regCount[i]

\* C3: handle_action_callback returns true exactly when a handler was
\* registered for the id at the time of the call, whatever the handler did,
\* and the handler's exception never reaches the caller.
C3_ReturnsWhetherFound ==
    \A t \in Threads : HandleDone(t) =>
        /\ cur[t].ret # "raised"
        /\ (cur[t].ret = "true") <=> (cur[t].cb # None)

\* C4: the registry lock is never held while a handler is executing.
C4_LockFreeWhileHandlerRuns ==
    \A t \in Threads : tpc[t] = "h_running" => lock = None

\* ======================================================================
\* NotificationManager: start / stop / _run_server, and the request handler
\* ======================================================================
\* what the platform handler's show_notification does when it is called
Outcomes == {"true", "false", "raise"}

\* a request on a connection: its route, the POST body and its actions
\* field, the notification id and action id of an action callback path, and
\* who sent it
NoReq  == [kind |-> None, body |-> None, actions |-> None, id |-> None,
           a |-> None, src |-> None, n |-> 0, att |-> 0]
NoResp == [status |-> 0, text |-> None]
NoLast == [status |-> 0, text |-> None, dispatched |-> FALSE, outcome |-> None,
           on_action |-> "unset"]
NoSend == [n |-> 0, on_action |-> None, actions |-> None, retry_count |-> 0,
           attempts |-> 0, fails |-> <<>>, srvDisp |-> 0, cliDisp |-> 0,
           cliOnAction |-> "unset",
           cliOutcome |-> None, regId |-> None, result |-> "none",
           done |-> FALSE]
NoStop == [state |-> "none", onRunning |-> FALSE, neverStarted |-> FALSE,
           connected |-> FALSE, joined |-> FALSE]
NoCheck == [n |-> 0, afterStart |-> FALSE, unbound |-> FALSE, attempts |-> 0,
            got |-> NoResp, fail |-> None, result |-> "none", done |-> FALSE]

\* a request body as do_POST sees it: a well-formed request object, text that
\* json.loads rejects, or JSON that is no usable request object (a list, a
\* platform_options entry that is no mapping), on which processing raises
Bodies == {"valid", "malformed", "nonobject"}

MgrInit ==
    /\ running = FALSE
    /\ thread = 0
    /\ server = 0
    /\ platform_handler \in {"present", None}
    /\ listening = 0
    /\ connq = <<>>
    /\ is_shut_down = FALSE
    /\ shutdown_request = FALSE
    /\ wpc = [w \in Workers |-> "unborn"]
    /\ wreq = [w \in Workers |-> NoReq]
    /\ wresp = [w \in Workers |-> NoLast]
    /\ mpc = "idle"
    /\ stopInfo = NoStop
    /\ nstarts = 0
    /\ nstops = 0
    /\ nexts = 0
    /\ socks = {}

\* no request body is under way; notification_timeout has the default of
\* settings.get("notification_timeout", 5)
NoDispatch == [called |-> FALSE, timeout |-> 0, defaulted |-> FALSE,
               options |-> {}, status |-> 0,
               n |-> 0, via |-> None, on_action |-> None, available |-> FALSE,
               rc |-> 0, ran |-> FALSE, result |-> "none"]

NoData == [unread |-> TRUE]

PostIdle ==
    /\ notification_timeout = 5
    /\ system = "windows"
    /\ notification_data = NoData
    /\ dispatch = NoDispatch

\* no asynchronous send has been made
NoAsync == [n |-> 0, callback |-> None, returned |-> "none", args |-> <<>>]

AsyncIdle ==
    /\ apc = "idle"
    /\ acall = NoAsync

\* str(port) and the settings of src/server/settings/main.py
Str(p) == ToString(p)

DefaultSettings == [use_fixed_port |-> TRUE, http_port |-> http_port,
                    predetermined |-> http_port]

\* the addon's start-up has run: tray_init allocated http_port, constructed
\* the manager on it and the manager published it
AddonIdle ==
    /\ settings = DefaultSettings
    /\ gpc = "idle"
    /\ port = http_port
    /\ branch = "fixed"
    /\ nallocs = 1
    /\ manager_port = http_port
    /\ shared_handler = None
    /\ script_port = None
    /\ addon_pc = "tray_inited"
    /\ env_port = Str(http_port)

\* no helper-backed macOS notification has been shown
NoWatch == [n |-> 0, pc |-> "none", max_wait |-> 0, on_action |-> None,
            response |-> None, invoked |-> <<>>, written |-> FALSE,
            warned |-> FALSE, alerter_path |-> FALSE, failures |-> 0,
            launch |-> None, native |-> FALSE, result |-> "none",
            started |-> 0]

WatchIdle ==
    /\ response_file = None
    /\ helper = "none"
    /\ cleanup_event = FALSE
    /\ watch = NoWatch

\* the Windows handler found the BurntToast module when it was constructed
PlatIdle ==
    /\ burnt_toast_available = TRUE
    /\ WatchIdle

\* the manager as constructed: __init__ has published its port
SrvInit ==
    /\ MgrInit
    /\ PostIdle
    /\ AsyncIdle
    /\ AddonIdle
    /\ PlatIdle

CliInit ==
    /\ client_handler \in {"present", None}
    /\ cpc = "idle"
    /\ call = NoSend
    /\ inbox = NoResp
    /\ nsends = 0
    /\ hpc = "idle"
    /\ hc = NoCheck

\* connect() to localhost:http_port succeeds when a socket listens on the port
\* and its accept queue has room; otherwise it is refused or times out
CanConnect == (listening # 0 \/ foreign) /\ Len(connq) < MaxBacklog

\* bind() of a new server socket to http_port succeeds when the port is free,
\* and fails with OSError when this or another process listens on it
PortFreeReuse == TRUE

PortFree == listening = 0 /\ ~foreign

\* ------------------------------------------------ NotificationManager.start
\* if self.running: return ; self.running = True ; Thread(_run_server).start()
Start ==
    /\ mpc = "idle"
    /\ nstarts < MaxStarts
    /\ nstarts' = nstarts + 1
    /\ IF running
       THEN UNCHANGED <<running, thread, wpc>>
       ELSE /\ running' = TRUE
            /\ thread' = nstarts + 1
            /\ wpc' = [wpc EXCEPT ![nstarts + 1] = "w_bind"]
    /\ UNCHANGED <<server, platform_handler, listening, connq, is_shut_down,
                   shutdown_request, wreq, wresp, mpc, stopInfo, nstops, nexts>>
    /\ UNCHANGED portVars
    /\ UNCHANGED cliVars
    /\ UNCHANGED regVars

\* ------------------------------------------- NotificationManager._run_server
\* self.server = ToastNotifyHTTPServer(("localhost", port), ...): bind + listen;
\* OSError (port in use): self.running = False and the thread ends
WorkerBind(w) ==
    /\ wpc[w] = "w_bind"
    /\ IF PortFree
       THEN /\ server' = w
            /\ listening' = w
            /\ socks' = socks \cup {w}
            /\ connq' = <<>>
            /\ is_shut_down' = FALSE
            /\ shutdown_request' = FALSE
            /\ wpc' = [wpc EXCEPT ![w] = "w_loop"]
            /\ UNCHANGED running
       ELSE /\ running' = FALSE
            /\ wpc' = [wpc EXCEPT ![w] = "w_exit"]
            /\ UNCHANGED <<server, listening, socks, connq, is_shut_down,
                           shutdown_request>>
    /\ UNCHANGED <<thread, platform_handler, wreq, wresp, mpc, stopInfo,
                   nstarts, nstops, nexts, foreign, restVars>>
    /\ UNCHANGED cliVars
    /\ UNCHANGED regVars

\* while self.running:
WorkerLoop(w) ==
    /\ wpc[w] = "w_loop"
    /\ wpc' = [wpc EXCEPT ![w] = IF running THEN "w_poll" ELSE "w_exit"]
    /\ wreq' = [wreq EXCEPT ![w] = NoReq]
    /\ wresp' = [wresp EXCEPT ![w] = NoLast]
    /\ UNCHANGED <<running, thread, server, platform_handler, listening, connq,
                   is_shut_down, shutdown_request, mpc, stopInfo,
                   nstarts, nstops, nexts>>
    /\ UNCHANGED portVars
    /\ UNCHANGED cliVars
    /\ UNCHANGED regVars

\* self.server.handle_request() with server.timeout = 1.0: nothing to accept
WorkerPollTimeout(w) ==
    /\ wpc[w] = "w_poll"
    /\ connq = <<>>
    /\ wpc' = [wpc EXCEPT ![w] = "w_loop"]
    /\ UNCHANGED <<running, thread, server, platform_handler, listening, connq,
                   is_shut_down, shutdown_request, wreq, wresp, mpc, stopInfo,
                   nstarts, nstops, nexts>>
    /\ UNCHANGED portVars
    /\ UNCHANGED cliVars
    /\ UNCHANGED regVars

\* self.server.handle_request(): accept the oldest queued connection
WorkerAccept(w) ==
    /\ wpc[w] = "w_poll"
    /\ connq # <<>>
    /\ wreq' = [wreq EXCEPT ![w] = Head(connq)]
    /\ connq' = Tail(connq)
    /\ wpc' = [wpc EXCEPT ![w] = "w_handle"]
    /\ UNCHANGED <<running, thread, server, platform_handler, listening,
                   is_shut_down, shutdown_request, wresp, mpc, stopInfo,
                   nstarts, nstops, nexts>>
    /\ UNCHANGED portVars
    /\ UNCHANGED cliVars
    /\ UNCHANGED regVars

\* NotificationManager.show_notification: False without a platform handler,
\* False when the handler raises, else what the handler returns
ManagerShowUncaught(h, o) ==
    IF h = None THEN "false" ELSE o

ManagerShow(h, o) ==
    IF h = None THEN "false"
    ELSE IF o = "raise" THEN "false"
    ELSE o

\* ToastNotifyHandler.do_POST for path /notify: r is what show_notification
\* gave ("raise": an exception reached do_POST's own try block)
DoPost(body, r) ==
    IF body = "malformed" THEN [status |-> 400, text |-> None]
    ELSE IF body # "valid" \/ r = "raise" THEN [status |-> 500, text |-> None]
    ELSE [status |-> 200, text |-> IF r = "true" THEN "success" ELSE "error"]

\* ToastNotifyHandler.do_GET for the paths other than /action/<id>/<action>
DoGetLax(kind) == [status |-> 200, text |-> "ok"]

DoGet(kind) ==
    IF kind = "GET /health" THEN [status |-> 200, text |-> "ok"]
    ELSE [status |-> 404, text |-> None]

\* the handler class defines do_GET and do_POST only: for any other method
\* BaseHTTPRequestHandler finds no do_<METHOD> and answers 501
OtherMethods == {"PUT /notify"}

\* the platform handler is reached only for a well-formed body when the
\* manager has a handler
Dispatches(req) ==
    req.kind = "POST /notify" /\ req.body = "valid" /\ platform_handler # None

\* do_POST answers 404 for every path but /notify before it reads the body
Response(req, o) ==
    IF req.kind = "POST /notify"
    THEN DoPost(req.body, ManagerShow(platform_handler, o))
    ELSE IF req.kind = "EOF" THEN NoResp
    ELSE IF req.kind \in OtherMethods THEN [status |-> 501, text |-> None]
    ELSE IF req.kind = "POST /other" THEN [status |-> 404, text |-> None]
    ELSE DoGet(req.kind)

\* the client still waits on the connection this request came in on
Awaited(req) ==
    /\ req.src = "client"
    /\ cpc = "c_wait"
    /\ req.n = call.n
    /\ req.att = call.retry_count

\* check_service_health still waits on the connection this request came in on
AwaitedHealth(req) ==
    /\ req.src = "health"
    /\ hpc = "h_wait"
    /\ req.n = hc.n

\* do_POST hands callback=None to show_notification, whatever the body holds
PostOnActionKept(req) == IF req.actions = "some" THEN "f" ELSE None

PostOnAction(req) == None

\* the platform variant with action buttons registers the handler under a
\* fresh uuid4 before it shows the toast: only for a non-empty action list
\* with a handler, and whether or not showing the toast then succeeds
RegistersUnavailable(actions, on_action, o) ==
    actions = "some" /\ on_action # None /\ o # "raise"

\* without the BurntToast module show_notification returns False at once
Registers(actions, on_action, o) ==
    burnt_toast_available /\ actions = "some" /\ on_action # None /\ o # "raise"

\* the outcomes the dispatch can have: true needs the BurntToast module
Shows(o) == burnt_toast_available \/ o # "true"

\* notification ids no registration has used yet
FreshIds == {i \in Ids : regCount[i] = 0}

\* register_action_callback(notification_id, on_action) made by the platform
\* handler; h is what the registered handler does when it is invoked
Registered(i, h) ==
    /\ lock = None
    /\ callbacks' = [callbacks EXCEPT ![i] = h]
    /\ regCount' = [regCount EXCEPT ![i] = @ + 1]

\* where the worker continues after handle_request(): every exception of the
\* dispatch is caught on the way (show_notification, do_POST, the try block
\* inside the loop), so the worker goes on with the loop
AfterRequestUncaught(o) == IF o = "raise" THEN "w_exit" ELSE "w_loop"

AfterRequest(o) == "w_loop"

\* the accepted request is handled on the worker thread: do_POST / do_GET;
\* o is the outcome of the platform dispatch, if one is performed. The
\* response reaches the client only if it still waits on this connection.
WorkerHandle(w, o) ==
    /\ wpc[w] = "w_handle"
    /\ wreq[w].kind # "GET /action"
    /\ Dispatches(wreq[w]) \/ o = "true"
    /\ Dispatches(wreq[w]) => Shows(o)
    /\ LET req == wreq[w]
           rsp == Response(req, o)
           f   == PostOnAction(req)
       IN /\ wresp' = [wresp EXCEPT ![w] =
                         [status |-> rsp.status, text |-> rsp.text,
                          dispatched |-> Dispatches(req),
                          outcome |-> IF Dispatches(req) THEN o ELSE None,
                          on_action |-> IF Dispatches(req) THEN f ELSE "unset"]]
          /\ call' = IF Dispatches(req) /\ req.src = "client" /\ req.n = call.n
                     THEN [call EXCEPT !.srvDisp = @ + 1]
                     ELSE call
          /\ inbox' = IF Awaited(req) THEN rsp ELSE inbox
          /\ hc' = IF AwaitedHealth(req) THEN [hc EXCEPT !.got = rsp] ELSE hc
          /\ IF Dispatches(req) /\ Registers(req.actions, f, o)
             THEN \E i \in FreshIds, h \in Handlers : Registered(i, h)
             ELSE UNCHANGED <<callbacks, regCount>>
    /\ wpc' = [wpc EXCEPT ![w] = AfterRequest(o)]
    /\ UNCHANGED <<running, thread, server, platform_handler, listening, connq,
                   is_shut_down, shutdown_request, wreq, mpc, stopInfo,
                   nstarts, nstops, nexts>>
    /\ UNCHANGED portVars
    /\ UNCHANGED <<client_handler, cpc, nsends, hpc>>
    /\ UNCHANGED <<lock, tpc, cur, fired, nops>>

\* do_GET for /action/<id>/<action>: the worker thread calls
\* handle_action_callback(notification_id, action_id)
WorkerResolve(w) ==
    /\ wpc[w] = "w_handle"
    /\ wreq[w].kind = "GET /action"
    /\ cur' = [cur EXCEPT ![WThread(w)] =
                 [NoCall EXCEPT !.op = "handle", !.id = wreq[w].id,
                                !.a = wreq[w].a]]
    /\ tpc' = [tpc EXCEPT ![WThread(w)] = "h_acquire"]
    /\ wpc' = [wpc EXCEPT ![w] = "w_resolve"]
    /\ UNCHANGED <<callbacks, lock, fired, regCount, nops>>
    /\ UNCHANGED <<running, thread, server, platform_handler, listening, connq,
                   is_shut_down, shutdown_request, wreq, wresp, mpc, stopInfo,
                   nstarts, nstops, nexts>>
    /\ UNCHANGED portVars
    /\ UNCHANGED cliVars

\* handle_action_callback returned: send_response(200) and the body
\* {"status": "success" if success else "error"}
ActionResponse(r) ==
    [status |-> 200, text |-> IF r = "true" THEN "success" ELSE "error"]

WorkerRespond(w) ==
    /\ wpc[w] = "w_resolve"
    /\ tpc[WThread(w)] = "idle"
    /\ LET rsp == ActionResponse(cur[WThread(w)].ret)
       IN wresp' = [wresp EXCEPT ![w] =
                      [NoLast EXCEPT !.status = rsp.status, !.text = rsp.text]]
    /\ wpc' = [wpc EXCEPT ![w] = "w_loop"]
    /\ UNCHANGED <<running, thread, server, platform_handler, listening, connq,
                   is_shut_down, shutdown_request, wreq, mpc, stopInfo,
                   nstarts, nstops, nexts>>
    /\ UNCHANGED portVars
    /\ UNCHANGED cliVars
    /\ UNCHANGED regVars

\* ------------------------------------------------- NotificationManager.stop
\* self.running = False ; if self.server: ...
StopNeedsConnectAlways == TRUE

\* if self.server:
StopNeedsConnect == server # 0

StopNeedsJoinAlways == TRUE

\* if self.thread and self.thread.is_alive():
StopNeedsJoin == thread # 0 /\ wpc[thread] \notin {"unborn", "w_exit"}

StopCall ==
    /\ mpc = "idle"
    /\ nstops < MaxStops
    /\ nstops' = nstops + 1
    /\ running' = FALSE
    /\ stopInfo' = [state |-> "called",
                    onRunning |-> /\ server # 0
                                  /\ listening = server
                                  /\ thread # 0
                                  /\ wpc[thread] \in {"w_loop", "w_poll", "w_handle"}
                                  /\ running,
                    neverStarted |-> nstarts = 0,
                    connected |-> FALSE,
                    joined |-> FALSE]
    /\ mpc' = IF StopNeedsConnect THEN "s_connect" ELSE "s_join"
    /\ UNCHANGED <<thread, server, platform_handler, listening, connq,
                   is_shut_down, shutdown_request, wpc, wreq, wresp, nstarts, nexts>>
    /\ UNCHANGED portVars
    /\ UNCHANGED cliVars
    /\ UNCHANGED regVars

\* socket.create_connection(("localhost", port), timeout=1); the socket object
\* is dropped at once, so the server reads an empty request from it.
\* On failure the except clause skips shutdown() and server_close().
StopConnect ==
    /\ mpc = "s_connect"
    /\ IF CanConnect
       THEN /\ connq' = Append(connq, [NoReq EXCEPT !.kind = "EOF", !.src = "stop"])
            /\ mpc' = "s_shutdown"
       ELSE /\ mpc' = "s_join"
            /\ UNCHANGED connq
    /\ stopInfo' = [stopInfo EXCEPT !.connected = TRUE]
    /\ UNCHANGED <<running, thread, server, platform_handler, listening,
                   is_shut_down, shutdown_request, wpc, wreq, wresp,
                   nstarts, nstops, nexts>>
    /\ UNCHANGED portVars
    /\ UNCHANGED cliVars
    /\ UNCHANGED regVars

\* self.server.shutdown(): sets __shutdown_request and waits for the
\* __is_shut_down event, which only serve_forever() sets; then server_close()
StopShutdown ==
    /\ mpc = "s_shutdown"
    /\ shutdown_request' = TRUE
    /\ IF is_shut_down
       THEN /\ listening' = IF listening = server THEN 0 ELSE listening
            /\ socks' = socks \ {server}
            /\ mpc' = "s_join"
       ELSE /\ mpc' = "s_wait"
            /\ UNCHANGED <<listening, socks>>
    /\ UNCHANGED <<running, thread, server, platform_handler, connq,
                   is_shut_down, wpc, wreq, wresp, stopInfo,
                   nstarts, nstops, nexts, foreign, restVars>>
    /\ UNCHANGED cliVars
    /\ UNCHANGED regVars

\* if self.thread and self.thread.is_alive(): self.thread.join(timeout=2.0)
\* ends when the worker ends or after 2 seconds; then stop() returns
StopJoin ==
    /\ mpc = "s_join"
    /\ mpc' = "idle"
    /\ stopInfo' = [stopInfo EXCEPT !.state = "returned",
                                    !.joined = StopNeedsJoin]
    /\ UNCHANGED <<running, thread, server, platform_handler, listening, connq,
                   is_shut_down, shutdown_request, wpc, wreq, wresp,
                   nstarts, nstops, nexts>>
    /\ UNCHANGED portVars
    /\ UNCHANGED cliVars
    /\ UNCHANGED regVars

\* ------------------------------- another local process sends a raw request
ExtRequest(kind, body) ==
    /\ nexts < MaxExt
    /\ CanConnect
    /\ (kind = "POST /notify") <=> (body # None)
    /\ nexts' = nexts + 1
    /\ connq' = Append(connq, [NoReq EXCEPT !.kind = kind, !.body = body,
                                            !.src = "ext"])
    /\ UNCHANGED <<running, thread, server, platform_handler, listening,
                   is_shut_down, shutdown_request, wpc, wreq, wresp, mpc,
                   stopInfo, nstarts, nstops>>
    /\ UNCHANGED portVars
    /\ UNCHANGED cliVars
    /\ UNCHANGED regVars

\* a raw POST /notify whose well-formed body carries a non-empty actions list
ExtNotifyActions ==
    /\ nexts < MaxExt
    /\ CanConnect
    /\ nexts' = nexts + 1
    /\ connq' = Append(connq, [NoReq EXCEPT !.kind = "POST /notify",
                                            !.body = "valid", !.actions = "some",
                                            !.src = "ext"])
    /\ UNCHANGED <<running, thread, server, platform_handler, listening,
                   is_shut_down, shutdown_request, wpc, wreq, wresp, mpc,
                   stopInfo, nstarts, nstops>>
    /\ UNCHANGED portVars
    /\ UNCHANGED cliVars
    /\ UNCHANGED regVars

\* the click on a toast button: the ayontoast:// protocol handler (or any
\* other local process) requests GET /action/<i>/<a>
ExtAction(i, a) ==
    /\ nexts < MaxExt
    /\ CanConnect
    /\ nexts' = nexts + 1
    /\ connq' = Append(connq, [NoReq EXCEPT !.kind = "GET /action", !.id = i,
                                            !.a = a, !.src = "ext"])
    /\ UNCHANGED <<running, thread, server, platform_handler, listening,
                   is_shut_down, shutdown_request, wpc, wreq, wresp, mpc,
                   stopInfo, nstarts, nstops>>
    /\ UNCHANGED portVars
    /\ UNCHANGED cliVars
    /\ UNCHANGED regVars

\* ======================================================================
\* ToastNotifyClient.send_notification and _try_http_notification
\* ======================================================================
OnActions  == {None, "f"}
\* the actions argument: None (absent), [] or a non-empty list
ActionArgs == {None, "empty", "some"}

\* if on_action and actions: return False  (skip HTTP)
SkipHttp(on_action, actions) == on_action # None /\ actions = "some"

\* send_notification is called; _try_http_notification either skips HTTP
\* or prepares the request with retry_count = 0
ClientSend(on_action, actions) ==
    /\ cpc = "idle"
    /\ nsends < MaxSends
    /\ nsends' = nsends + 1
    /\ call' = [NoSend EXCEPT !.n = nsends + 1, !.on_action = on_action,
                              !.actions = actions]
    /\ cpc' = IF SkipHttp(on_action, actions) THEN "c_fallback" ELSE "c_post"
    /\ inbox' = NoResp
    /\ UNCHANGED client_handler
    /\ UNCHANGED healthVars
    /\ UNCHANGED srvVars
    /\ UNCHANGED regVars

\* urllib.request.urlopen(req, timeout=self.timeout): connect and send the
\* POST; a refused or timed-out connect raises URLError
ClientPost ==
    /\ cpc = "c_post"
    /\ IF CanConnect
       THEN /\ connq' = Append(connq, [NoReq EXCEPT !.kind = "POST /notify",
                                                    !.body = "valid",
                                                    !.actions = call.actions,
                                                    !.src = "client",
                                                    !.n = call.n,
                                                    !.att = call.retry_count])
            /\ call' = [call EXCEPT !.attempts = @ + 1]
            /\ cpc' = "c_wait"
       ELSE /\ call' = [call EXCEPT !.attempts = @ + 1,
                                    !.fails = Append(@, "refused")]
            /\ cpc' = "c_except"
            /\ UNCHANGED connq
    /\ inbox' = NoResp
    /\ UNCHANGED <<client_handler, nsends>>
    /\ UNCHANGED healthVars
    /\ UNCHANGED <<running, thread, server, platform_handler, listening,
                   is_shut_down, shutdown_request, wpc, wreq, wresp, mpc,
                   stopInfo, nstarts, nstops, nexts>>
    /\ UNCHANGED portVars
    /\ UNCHANGED regVars

\* no response within self.timeout: socket.timeout; the connection is dropped
ClientTimeout ==
    /\ cpc = "c_wait"
    /\ inbox = NoResp
    /\ call' = [call EXCEPT !.fails = Append(@, "timeout")]
    /\ cpc' = "c_except"
    /\ UNCHANGED <<client_handler, inbox, nsends>>
    /\ UNCHANGED healthVars
    /\ UNCHANGED srvVars
    /\ UNCHANGED regVars

\* the response arrived: status 200 -> return status == "success";
\* any other status is raised by urlopen as HTTPError, a URLError
ClientRecv ==
    /\ cpc = "c_wait"
    /\ inbox # NoResp
    /\ IF inbox.status = 200
       THEN IF inbox.text = "success"
            THEN /\ call' = [call EXCEPT !.result = "true", !.done = TRUE]
                 /\ cpc' = "idle"
            ELSE /\ cpc' = "c_fallback"
                 /\ UNCHANGED call
       ELSE /\ call' = [call EXCEPT !.fails = Append(@, "http")]
            /\ cpc' = "c_except"
    /\ inbox' = NoResp
    /\ UNCHANGED <<client_handler, nsends>>
    /\ UNCHANGED healthVars
    /\ UNCHANGED srvVars
    /\ UNCHANGED regVars

\* except (URLError, socket.timeout): retry_count += 1; give up after
\* max_retries, else sleep 0.5 s and try again
ClientExcept ==
    /\ cpc = "c_except"
    /\ call' = [call EXCEPT !.retry_count = @ + 1]
    /\ cpc' = IF call.retry_count + 1 > max_retries THEN "c_fallback" ELSE "c_post"
    /\ UNCHANGED <<client_handler, inbox, nsends>>
    /\ UNCHANGED healthVars
    /\ UNCHANGED srvVars
    /\ UNCHANGED regVars

\* what send_notification returns after the in-process dispatch ended with o
FallbackResultUncaught(o) ==
    IF o = "raise" THEN "raised" ELSE o

FallbackResult(o) ==
    IF o = "true" THEN "true" ELSE "false"

\* the on_action argument handed to platform_handler.show_notification
FallbackOnAction(c) == c.on_action

\* the call record after the in-process dispatch ended with o, having
\* registered the handler under id i (None: nothing was registered)
Dispatched(c, o, i) ==
    [c EXCEPT !.result = FallbackResult(o), !.done = TRUE,
              !.cliOutcome = o,
              !.cliOnAction = FallbackOnAction(c),
              !.cliDisp = @ + 1,
              !.regId = i]

\* if self.platform_handler: try: return show_notification(..., on_action)
\* except Exception: log ; return False
\* The platform handler registers the handler when it is given one together
\* with a non-empty action list.
ClientFallback(o) ==
    /\ cpc = "c_fallback"
    /\ IF client_handler = None
       THEN /\ o = "true"
            /\ call' = [call EXCEPT !.result = "false", !.done = TRUE]
            /\ UNCHANGED <<callbacks, regCount>>
       ELSE IF ~Shows(o)
            THEN FALSE
       ELSE IF Registers(call.actions, FallbackOnAction(call), o)
            THEN \E i \in FreshIds, h \in Handlers :
                    /\ Registered(i, h)
                    /\ call' = Dispatched(call, o, i)
            ELSE /\ call' = Dispatched(call, o, None)
                 /\ UNCHANGED <<callbacks, regCount>>
    /\ cpc' = "idle"
    /\ UNCHANGED <<client_handler, inbox, nsends>>
    /\ UNCHANGED healthVars
    /\ UNCHANGED srvVars
    /\ UNCHANGED <<lock, tpc, cur, fired, nops>>

\* ======================================================================
\* ToastNotifyClient.check_service_health
\* ======================================================================
\* what the process holding the port may answer to a request
ForeignAnswers == {[status |-> 200, text |-> "success"],
                   [status |-> 200, text |-> "ok"],
                   [status |-> 200, text |-> "garbage"],
                   [status |-> 500, text |-> None]}

\* the call begins. afterStart: start() has returned on this manager, whose
\* port no other process holds, and nothing has stopped it since
HealthCall ==
    /\ hpc = "idle"
    /\ hc.n < MaxChecks
    /\ hc' = [NoCheck EXCEPT !.n = hc.n + 1,
                             !.afterStart = (running /\ nstarts > 0 /\ ~foreign)]
    /\ hpc' = "h_open"
    /\ UNCHANGED <<client_handler, cpc, call, inbox, nsends>>
    /\ UNCHANGED srvVars
    /\ UNCHANGED regVars

\* urllib.request.urlopen(req, timeout=self.timeout): connect and send
\* GET /health; a refused connect raises URLError, which returns False
HealthOpen ==
    /\ hpc = "h_open"
    /\ IF CanConnect
       THEN /\ connq' = Append(connq, [NoReq EXCEPT !.kind = "GET /health",
                                                    !.src = "health",
                                                    !.n = hc.n])
            /\ hc' = [hc EXCEPT !.attempts = @ + 1,
                                !.unbound = (listening = 0 /\ ~foreign)]
            /\ hpc' = "h_wait"
       ELSE /\ hc' = [hc EXCEPT !.attempts = @ + 1,
                                !.unbound = (listening = 0 /\ ~foreign),
                                !.fail = "refused",
                                !.result = "false", !.done = TRUE]
            /\ hpc' = "idle"
            /\ UNCHANGED connq
    /\ UNCHANGED <<client_handler, cpc, call, inbox, nsends>>
    /\ UNCHANGED <<running, thread, server, platform_handler, listening,
                   is_shut_down, shutdown_request, wpc, wreq, wresp, mpc,
                   stopInfo, nstarts, nstops, nexts>>
    /\ UNCHANGED portVars
    /\ UNCHANGED regVars

\* no response within self.timeout: socket.timeout is caught, returns False
HealthTimeout ==
    /\ hpc = "h_wait"
    /\ hc.got = NoResp
    /\ hc' = [hc EXCEPT !.fail = "timeout", !.result = "false", !.done = TRUE]
    /\ hpc' = "idle"
    /\ UNCHANGED <<client_handler, cpc, call, inbox, nsends>>
    /\ UNCHANGED srvVars
    /\ UNCHANGED regVars

\* what check_service_health returns for the response it received: a status
\* other than 200 is raised by urlopen as HTTPError (a URLError) and a body
\* that is no JSON object raises inside the try block; both return False
HealthResultUncaught(rsp) ==
    IF rsp.status = 200 /\ rsp.text = "ok" THEN "true"
    ELSE IF rsp.status = 200 /\ rsp.text = "garbage" THEN "raised"
    ELSE "false"

HealthResult(rsp) ==
    IF rsp.status = 200 /\ rsp.text = "ok" THEN "true" ELSE "false"

\* the response arrived
HealthRecv ==
    /\ hpc = "h_wait"
    /\ hc.got # NoResp
    /\ hc' = [hc EXCEPT !.result = HealthResult(hc.got), !.done = TRUE,
                        !.fail = IF hc.got.status # 200 THEN "http"
                                 ELSE IF hc.got.text # "ok" THEN "body"
                                 ELSE None]
    /\ hpc' = "idle"
    /\ UNCHANGED <<client_handler, cpc, call, inbox, nsends>>
    /\ UNCHANGED srvVars
    /\ UNCHANGED regVars

\* the process that holds the port accepts the oldest connection and answers
\* it with rsp
ForeignAnswer(rsp) ==
    /\ foreign
    /\ connq # <<>>
    /\ connq' = Tail(connq)
    /\ inbox' = IF Awaited(Head(connq)) THEN rsp ELSE inbox
    /\ hc' = IF AwaitedHealth(Head(connq)) THEN [hc EXCEPT !.got = rsp] ELSE hc
    /\ UNCHANGED <<client_handler, cpc, call, nsends, hpc>>
    /\ UNCHANGED <<running, thread, server, platform_handler, listening,
                   is_shut_down, shutdown_request, wpc, wreq, wresp, mpc,
                   stopInfo, nstarts, nstops, nexts>>
    /\ UNCHANGED portVars
    /\ UNCHANGED regVars

\* ======================================================================
WorkerStep ==
    \/ \E w \in Workers : WorkerBind(w)
    \/ \E w \in Workers : WorkerLoop(w)
    \/ \E w \in Workers : WorkerPollTimeout(w)
    \/ \E w \in Workers : WorkerAccept(w)
    \/ \E w \in Workers, o \in Outcomes : WorkerHandle(w, o)

StopStep ==
    \/ StopConnect
    \/ StopShutdown
    \/ StopJoin

ClientStep ==
    \/ ClientPost
    \/ ClientTimeout
    \/ ClientRecv
    \/ ClientExcept
    \/ \E o \in Outcomes : ClientFallback(o)

ExtStep ==
    \E k \in {"POST /notify", "GET /health", "GET /other"},
       b \in Bodies \cup {None} : ExtRequest(k, b)

\* the worker thread inside do_GET for an action callback path
ResolveStep ==
    \/ \E w \in Workers : WorkerResolve(w)
    \/ \E w \in Workers : HandleAcquire(WThread(w))
    \/ \E w \in Workers : HandleGet(WThread(w))
    \/ \E w \in Workers : HandleInvoke(WThread(w))
    \/ \E w \in Workers : HandlerReturns(WThread(w))
    \/ \E w \in Workers : HandlerRaises(WThread(w))
    \/ \E w \in Workers : HandleExit(WThread(w))
    \/ \E w \in Workers : WorkerRespond(w)

\* raw requests for the remaining routes and methods
ExtMoreStep ==
    \/ \E k \in {"POST /other"} \cup OtherMethods : ExtRequest(k, None)
    \/ ExtNotifyActions
    \/ \E i \in Ids : ExtAction(i, "yes")

HealthStep ==
    \/ HealthOpen
    \/ HealthTimeout
    \/ HealthRecv

\* a send_notification call made after a worker of this manager has ended
LateSend(on_action, actions) ==
    /\ \E w \in Workers : wpc[w] = "w_exit"
    /\ ClientSend(on_action, actions)

\* the state after construction; no other process holds the port
Init == RegInit /\ SrvInit /\ CliInit /\ foreign = FALSE

\* the state after construction when another process already listens on
\* http_port
InitTaken == RegInit /\ SrvInit /\ CliInit /\ foreign = TRUE

\* the manager's life cycle: start(), stop(), the worker and raw requests
LifeNext ==
    \/ Start
    \/ StopCall
    \/ StopStep
    \/ WorkerStep
    \/ ExtStep

LifeInit == Init /\ client_handler = "present"

SpecLife == LifeInit /\ [][LifeNext]_vars

\* threads that can take a step eventually take it
FairLife == LifeInit /\ [][LifeNext]_vars /\ WF_vars(WorkerStep) /\ WF_vars(StopStep)

\* the client sending to the manager's server
Next ==
    \/ Start
    \/ WorkerStep
    \/ ExtStep
    \/ \E f \in OnActions, a \in ActionArgs : ClientSend(f, a)
    \/ ClientStep

Spec == Init /\ [][Next]_vars

\* ------------------------------------------------------ life-cycle claims
StopPendingOnRunning == stopInfo.state = "called" /\ stopInfo.onRunning

\* C5: stop() called on a Running server (socket bound, worker in its polling
\* loop) always terminates: it eventually returns.
C5_StopOnRunningReturns ==
    StopPendingOnRunning ~> (stopInfo.state = "returned")

\* C6: once stop() on a Running server has returned, the listening socket is
\* closed and the port is free, so that a new server can bind it.
C6_StoppedServerReleasedPort ==
    (stopInfo.state = "returned" /\ stopInfo.onRunning) => listening = 0

\* ------------------------------------------------------ client claims
\* C7: a send_notification call with a handler (on_action not None), whatever
\* its actions argument, issues no HTTP request and dispatches in-process
\* with that handler.
C7_HandlerNeverUsesHttp ==
    call.on_action # None =>
        /\ call.attempts = 0
        /\ (call.done /\ client_handler # None) =>
               (call.cliDisp = 1 /\ call.cliOnAction = call.on_action)

RefusedOrTimedOut(c) ==
    /\ Len(c.fails) = max_retries + 1
    /\ \A i \in 1..Len(c.fails) : c.fails[i] \in {"refused", "timeout"}

\* C8: send_notification never raises; when both HTTP attempts failed by
\* refusal or timeout it calls the in-process platform handler exactly once
\* with the caller's on_action and returns its result, and it returns false
\* when that handler is missing or raises.
C8_FallbackAfterHttpFailure ==
    /\ call.result # "raised"
    /\ (call.done /\ RefusedOrTimedOut(call)) =>
          IF client_handler # None
          THEN /\ call.cliDisp = 1
               /\ call.cliOnAction = call.on_action
               /\ call.result = (IF call.cliOutcome = "true" THEN "true" ELSE "false")
          ELSE /\ call.cliDisp = 0
               /\ call.result = "false"

\* a call with a handler and no actions: refused, then timed out, then the
\* in-process handler raised and the call returned false
C8_Witness ==
    /\ call.done
    /\ call.fails = <<"refused", "timeout">>
    /\ call.on_action = "f"
    /\ call.cliDisp = 1
    /\ call.cliOutcome = "raise"
    /\ call.result = "false"

\* C9: one send_notification call dispatches through exactly one path: never
\* both by the server (for a delivered POST /notify) and in-process.
C9_OneDispatchPathPerCall ==
    ~(call.srvDisp > 0 /\ call.cliDisp > 0)

\* ------------------------------------------------------ server claims
Answered(w) == wpc[w] = "w_loop" /\ wreq[w].kind = "POST /notify"

\* C10: POST /notify answers 200 "success" exactly when the platform dispatch
\* returned true, 200 "error" when it returned false, raised or there is no
\* platform handler, 400 without any dispatch when the body is not JSON, and
\* 500 when another exception occurs while the request is processed.
C10_PostNotifyResponse ==
    \A w \in Workers : Answered(w) =>
        LET b == wreq[w].body
            r == wresp[w]
            shown == r.dispatched /\ r.outcome = "true"
        IN /\ b = "malformed" => (r.status = 400 /\ ~r.dispatched)
           /\ b = "nonobject" => (r.status = 500 /\ ~r.dispatched)
           /\ b = "valid" => /\ r.status = 200
                             /\ r.dispatched <=> (platform_handler # None)
                             /\ (r.text = "success") <=> shown
                             /\ (r.text = "error") <=> ~shown

\* a well-formed POST whose dispatch raised was answered 200 "error"
C10_Witness ==
    \E w \in Workers :
        /\ Answered(w)
        /\ wreq[w].body = "valid"
        /\ wresp[w].dispatched
        /\ wresp[w].outcome = "raise"
        /\ wresp[w].status = 200
        /\ wresp[w].text = "error"

\* the registry used by concurrent threads; the service is not started
RegistryInit == Init /\ platform_handler = "present" /\ client_handler = "present"

SpecRegistry == RegistryInit /\ [][RegNext]_vars

\* ======================================================================
\* the server answering every route, next to a client whose in-process
\* dispatch registers handlers
\* ======================================================================
ServeNext ==
    \/ Start
    \/ WorkerStep
    \/ ResolveStep
    \/ ExtStep
    \/ ExtMoreStep
    \/ ClientSend("f", "some")
    \/ \E o \in Outcomes : ClientFallback(o)

ServeInit == Init /\ platform_handler = "present" /\ client_handler = "present"

SpecServe == ServeInit /\ [][ServeNext]_vars

\* worker w takes the step that answers the request it holds
Handles(w) == wpc[w] = "w_handle" /\ wpc'[w] # "w_handle"

\* worker w is back in the loop after the request it still holds
Handled(w) == wpc[w] = "w_loop" /\ wreq[w].kind # None

\* C11: whatever the body of a POST /notify holds, the platform dispatch made
\* for it receives on_action = None and the registry is left as it was; no
\* step of the server on behalf of a request registers a handler: only the
\* in-process dispatch of a client does.
C11_PostNeverRegisters ==
    [][/\ \A w \in Workers :
            (Handles(w) /\ wreq[w].kind = "POST /notify") =>
                /\ callbacks' = callbacks
                /\ wresp'[w].dispatched => wresp'[w].on_action = None
       /\ regCount' # regCount => (cpc = "c_fallback" /\ cpc' = "idle")]_vars

\* a POST /notify with a non-empty actions list was dispatched without a
\* handler and nothing is registered
C11_Witness ==
    \E w \in Workers :
        /\ Handled(w)
        /\ wreq[w].kind = "POST /notify"
        /\ wreq[w].actions = "some"
        /\ wresp[w].dispatched
        /\ wresp[w].on_action = None
        /\ \A i \in Ids : regCount[i] = 0

ActionAnswered(w) == wpc[w] = "w_loop" /\ wreq[w].kind = "GET /action"

\* C12: GET /action/<id>/<action> is always answered 200; the body says
\* "success" exactly when a handler was registered for the id (and it was
\* then invoked once with the action id), and "error" otherwise.
C12_ActionCallbackResponse ==
    \A w \in Workers : ActionAnswered(w) =>
        LET c == cur[WThread(w)]
        IN /\ wresp[w].status = 200
           /\ (wresp[w].text = "success") <=> (c.cb # None)
           /\ (wresp[w].text = "error") <=> (c.cb = None)
           /\ c.cb # None => (c.inv = 1 /\ c.invArg = wreq[w].a)

Unrouted == {"GET /other", "POST /other"} \cup OtherMethods

\* the original wording of C13: every request outside the three routes is
\* answered 404 without dispatch, and GET /health is answered 200 "ok".
C13_UnroutedIs404 ==
    \A w \in Workers : Handled(w) =>
        /\ wreq[w].kind = "GET /health" =>
               (wresp[w].status = 200 /\ wresp[w].text = "ok")
        /\ wreq[w].kind \in Unrouted =>
               (wresp[w].status = 404 /\ ~wresp[w].dispatched)

\* C13 (amended): GET /health is answered 200 "ok"; a GET or POST for any
\* other path than the three routes is answered 404 and a request with any
\* other method is answered 501; none of them reaches the platform dispatch
\* or changes the registry.
C13_UnroutedIs404Or501 ==
    [][\A w \in Workers : Handles(w) =>
          /\ wreq[w].kind = "GET /health" =>
                 (wresp'[w].status = 200 /\ wresp'[w].text = "ok")
          /\ wreq[w].kind \in {"GET /other", "POST /other"} =>
                 wresp'[w].status = 404
          /\ wreq[w].kind \in OtherMethods => wresp'[w].status = 501
          /\ wreq[w].kind \in Unrouted =>
                 /\ ~wresp'[w].dispatched
                 /\ callbacks' = callbacks
                 /\ regCount' = regCount]_vars

\* a request with a method the handler does not implement was answered 501
C13_Witness ==
    \E w \in Workers :
        /\ Handled(w)
        /\ wreq[w].kind \in OtherMethods
        /\ wresp[w].status = 501
        /\ ~wresp[w].dispatched

InLoop(w) == wpc[w] \in {"w_loop", "w_poll", "w_handle", "w_resolve"}

\* C14: no request ends a Running server: whatever the worker is given (well-
\* formed and malformed POSTs, unknown routes, action callbacks whose handler
\* raises, dispatches that fail or raise), it stays in its loop with running
\* = true, and a GET /health it handles is answered 200 "ok".
C14_RequestsKeepServerRunning ==
    [][\A w \in Workers :
          /\ (InLoop(w) /\ running) => (InLoop(w)' /\ running')
          /\ (Handles(w) /\ wreq[w].kind = "GET /health") =>
                 (wresp'[w].status = 200 /\ wresp'[w].text = "ok")]_vars

\* the worker is back in its loop, still running, after an action callback
\* whose handler raised
C14_Witness ==
    \E w \in Workers :
        /\ ActionAnswered(w)
        /\ cur[WThread(w)].cb = "hRaise"
        /\ cur[WThread(w)].inv = 1
        /\ running

\* C20: a send_notification call with a handler and a non-empty action list
\* issues no HTTP request and registers the handler once; once the click has
\* arrived as GET /action/<id>/yes the handler has been called exactly once,
\* with "yes", however often the request is repeated.
C20_ClickFiresHandlerOnce ==
    (call.on_action # None /\ call.actions = "some") =>
        /\ call.attempts = 0
        /\ (call.done /\ client_handler # None /\ call.cliOutcome # "raise") =>
               (call.regId # None /\ regCount[call.regId] = 1)
        /\ call.regId # None =>
               /\ fired[call.regId] <= 1
               /\ \A w \in Workers :
                      (/\ ActionAnswered(w)
                       /\ wreq[w].id = call.regId
                       /\ cur[WThread(w)].cb # None) =>
                          /\ fired[call.regId] = 1
                          /\ cur[WThread(w)].inv = 1
                          /\ cur[WThread(w)].invArg = wreq[w].a

\* ======================================================================
\* check_service_health
\* ======================================================================
HealthNext ==
    \/ Start
    \/ WorkerStep
    \/ HealthCall
    \/ HealthStep
    \/ \E r \in ForeignAnswers : ForeignAnswer(r)

HealthInit ==
    /\ RegInit /\ SrvInit /\ CliInit
    /\ foreign \in BOOLEAN
    /\ platform_handler = "present"
    /\ client_handler = "present"

SpecHealth == HealthInit /\ [][HealthNext]_vars

\* C15: check_service_health returns false when nothing listens on the port,
\* and true when it is called after start() has returned on a manager whose
\* port is free, wherever the worker thread is at that moment.
C15_HealthTracksServer ==
    hc.done =>
        /\ hc.unbound => hc.result = "false"
        /\ hc.afterStart => hc.result = "true"

\* C16: check_service_health opens one connection, never raises, and returns
\* true only for a 200 response whose body has status "ok": a refused
\* connection, a timeout, another status or another body yield false.
C16_HealthNeverRaises ==
    /\ hc.result # "raised"
    /\ hc.attempts <= 1
    /\ hc.done =>
          /\ (hc.result = "true") <=> (hc.got.status = 200 /\ hc.got.text = "ok")
          /\ hc.fail # None => hc.result = "false"

\* a 200 response whose body is no JSON object made the call return false
C16_Witness ==
    /\ hc.done
    /\ hc.got = [status |-> 200, text |-> "garbage"]
    /\ hc.fail = "body"
    /\ hc.result = "false"

\* ======================================================================
\* another process holds http_port: no worker gets past its bind, so the
\* steps left are start(), the failing bind, stop() and the client
\* ======================================================================
TakenNext ==
    \/ Start
    \/ \E w \in Workers : WorkerBind(w)
    \/ StopCall
    \/ StopJoin
    \/ \E f \in OnActions, a \in ActionArgs : LateSend(f, a)
    \/ ClientStep
    \/ \E r \in ForeignAnswers : ForeignAnswer(r)

SpecTaken == InitTaken /\ [][TakenNext]_vars

\* the worker of a manager whose port is taken ends without a socket and
\* without a request, leaving running = false; stop() then opens no
\* connection and does not block
BindFailureContained ==
    /\ \A w \in Workers : wpc[w] \in {"unborn", "w_bind", "w_exit"}
    /\ \A w \in Workers : wreq[w] = NoReq /\ wresp[w] = NoLast
    /\ (\A w \in Workers : wpc[w] # "w_bind") => ~running
    /\ server = 0 /\ socks = {}
    /\ mpc \in {"idle", "s_join"}
    /\ ~stopInfo.connected

NeverStartedStopStep == nstarts = 0 /\ (nstops' # nstops \/ mpc # "idle")

\* C17: stop() on a manager that was never started returns without error and
\* changes nothing: it opens no connection, joins no thread, leaves running
\* false and leaves the sockets, the published port and the registry alone.
C17_StopNeverStartedIsNoOp ==
    [][NeverStartedStopStep =>
          /\ running' = FALSE
          /\ mpc' \in {"s_join", "idle"}
          /\ ~stopInfo'.connected
          /\ ~stopInfo'.joined
          /\ UNCHANGED <<connq, socks, listening, server, thread, wpc,
                         env_port, callbacks, regCount>>]_vars

\* stop() has returned on a manager that was never started
C17_Witness ==
    /\ stopInfo.state = "returned"
    /\ stopInfo.neverStarted
    /\ nstarts = 0

Systems    == {"windows", "darwin"}
OptionKeys == {"timeout", "sound"}
Timeouts   == 0..MaxTimeout

\* platform_options of a body: a mapping from some platform names to the keys
\* of that platform's option overrides
PlatformOptions == UNION {[D -> SUBSET OptionKeys] : D \in SUBSET Systems}

\* the bodies json.loads yields: with and without a top-level timeout
PostBodies ==
    {[timeout |-> t, platform_options |-> po] :
         t \in Timeouts, po \in PlatformOptions}
    \cup {[platform_options |-> po] : po \in PlatformOptions}

\* Python's `a or b` on integers
Or(a, b) == IF a = 0 THEN b ELSE a

\* specific_options after do_POST has looked up the current platform and
\* has popped its timeout key
SpecificOptions(d) ==
    IF system \in DOMAIN d.platform_options
    THEN d.platform_options[system] \ {"timeout"} ELSE {}

\* do_POST has parsed the body
PostParse(d) ==
    /\ notification_data = NoData
    /\ notification_data' = d
    /\ UNCHANGED <<notification_timeout, system, dispatch>>
    /\ UNCHANGED <<regVars, cliVars, mgrVars, env_port, asyncVars, addonVars, platVars>>

\* do_POST extracts the parameters and calls the manager's show_notification,
\* which calls the platform handler's; a keyword passed twice is a TypeError
\* that do_POST answers with 500
PostShow ==
    /\ notification_data # NoData
    /\ dispatch.status = 0
    /\ LET d        == notification_data
           has      == "timeout" \in DOMAIN d
           timeout  == IF has THEN d.timeout ELSE notification_timeout
           specific == SpecificOptions(d)
       IN  dispatch' =
             IF "timeout" \in specific
             THEN [NoDispatch EXCEPT !.status = 500]
             ELSE [called    |-> platform_handler # None,
                   timeout   |-> Or(timeout, notification_timeout),
                   defaulted |-> ~has \/ timeout = 0,
                   options   |-> specific,
                   status    |-> 200]
    /\ UNCHANGED <<notification_timeout, system, notification_data>>
    /\ UNCHANGED <<regVars, cliVars, mgrVars, env_port, asyncVars, addonVars, platVars>>

PostNext ==
    \/ \E d \in PostBodies : PostParse(d)
    \/ PostShow

PostInit ==
    /\ RegInit /\ MgrInit /\ CliInit
    /\ foreign = FALSE
    /\ AddonIdle
    /\ PlatIdle
    /\ platform_handler = "present"
    /\ client_handler = "present"
    /\ notification_timeout \in {2, 5}
    /\ system \in Systems
    /\ notification_data = NoData
    /\ dispatch = NoDispatch
    /\ AsyncIdle

SpecPost == PostInit /\ [][PostNext]_vars

\* C21: the timeout the platform dispatch gets is the body's top-level
\* timeout whenever the body has one (0 included); a timeout key of the
\* current platform's overrides never reaches the dispatch; and the manager's
\* default is used only for a body without top-level timeout.
C21_TopLevelTimeoutWins ==
    dispatch.called =>
        /\ "timeout" \in DOMAIN notification_data
               => dispatch.timeout = notification_data.timeout
        /\ "timeout" \notin dispatch.options
        /\ dispatch.defaulted => "timeout" \notin DOMAIN notification_data

\* the module-level send_notification with async_send = True
\* ======================================================================
\* a completion callback: absent, one that returns, one that raises
Callbacks == {None, "cbReturn", "cbRaise"}

\* send_notification(..., async_send=True, callback=cb): a daemon thread is
\* started on _send_async and True is returned
AsyncCall(cb) ==
    /\ apc \in {"idle", "a_done"}
    /\ cpc = "idle"
    /\ nsends < MaxSends
    /\ apc' = "a_run"
    /\ acall' = [NoAsync EXCEPT !.n = nsends + 1, !.callback = cb,
                                !.returned = "true"]
    /\ UNCHANGED <<regVars, cliVars, mgrVars, env_port, postVars, addonVars, platVars>>

\* the thread calls client.send_notification
AsyncSend(on_action, actions) ==
    /\ apc = "a_run"
    /\ nsends < acall.n
    /\ ClientSend(on_action, actions)

\* what _send_async does after callback(result) returned or raised
AfterCallback(cb) == IF cb = "cbRaise" THEN "a_except" ELSE "a_done"

\* client.send_notification returned result: if callback: callback(result)
AsyncCallback ==
    /\ apc = "a_run"
    /\ call.n = acall.n
    /\ call.done
    /\ IF acall.callback = None
       THEN /\ apc' = "a_done"
            /\ UNCHANGED acall
       ELSE /\ acall' = [acall EXCEPT !.args = Append(@, call.result)]
            /\ apc' = AfterCallback(acall.callback)
    /\ UNCHANGED <<regVars, cliVars, mgrVars, env_port, postVars, addonVars, platVars>>

\* except Exception: if callback: callback(False); an exception of this
\* second call ends the thread
AsyncExcept ==
    /\ apc = "a_except"
    /\ acall' = [acall EXCEPT !.args = Append(@, "false")]
    /\ apc' = "a_done"
    /\ UNCHANGED <<regVars, cliVars, mgrVars, env_port, postVars, addonVars, platVars>>

AsyncNext ==
    \/ \E cb \in Callbacks : AsyncCall(cb)
    \/ \E f \in OnActions, a \in ActionArgs : AsyncSend(f, a)
    \/ ClientStep
    \/ \E r \in ForeignAnswers : ForeignAnswer(r)
    \/ AsyncCallback
    \/ AsyncExcept

\* the port is held by some process that may answer the client's POST
AsyncInit == InitTaken

SpecAsync == AsyncInit /\ [][AsyncNext]_vars

\* get_toast_notify_port and NotificationManager.__init__
\* ======================================================================
\* random.randint(a, b)

RandInt(a, b) == a..b

\* the ports the operating system may hand out for bind(('', 0))
EphemeralPorts == {49152, 49153}

\* the addon settings a process may start with
SettingsSet ==
    {[use_fixed_port |-> f, http_port |-> h, predetermined |-> 0] :
        f \in BOOLEAN, h \in {http_port, 6000}}

\* settings.get("http_port", 5127), for settings that have the entry
FixedPortDefault(s) == http_port

FixedPort(s) == s.http_port

\* os.environ["AYON_TOASTNOTIFY_PORT"] = str(p); return p
PublishUnset(p) ==
    /\ env_port' = None
    /\ port' = p
    /\ gpc' = "idle"

Publish(p) ==
    /\ env_port' = Str(p)
    /\ port' = p
    /\ gpc' = "idle"

\* the call begins: a published port is popped from the environment
GetPortEnter ==
    /\ gpc = "idle"
    /\ nallocs < MaxAllocs
    /\ nallocs' = nallocs + 1
    /\ env_port' = None
    /\ port' = 0
    /\ branch' = "none"
    /\ gpc' = "g_choose"

\* a direct call, made before the manager is constructed
GetPortCall ==
    /\ addon_pc = "idle"
    /\ manager_port = 0
    /\ GetPortEnter
    /\ UNCHANGED <<settings, manager_port, shared_handler, script_port, addon_pc>>
    /\ UNCHANGED <<regVars, cliVars, mgrVars, postVars, asyncVars, platVars>>

\* if use_fixed_port is True: port = settings.get("http_port", 5127)
GetPortFixed ==
    /\ gpc = "g_choose"
    /\ settings.use_fixed_port
    /\ Publish(FixedPort(settings))
    /\ branch' = "fixed"
    /\ UNCHANGED <<settings, nallocs, manager_port, shared_handler, script_port,
                   addon_pc>>
    /\ UNCHANGED <<regVars, cliVars, mgrVars, postVars, asyncVars, platVars>>

\* else: s.bind(('', 0)); port = s.getsockname()[1]
GetPortProbe ==
    /\ gpc = "g_choose"
    /\ ~settings.use_fixed_port
    /\ \E p \in EphemeralPorts : Publish(p)
    /\ branch' = "probe"
    /\ UNCHANGED <<settings, nallocs, manager_port, shared_handler, script_port,
                   addon_pc>>
    /\ UNCHANGED <<regVars, cliVars, mgrVars, postVars, asyncVars, platVars>>

\* except Exception: port = random.randint(10000, 65000)
GetPortFallback ==
    /\ gpc = "g_choose"
    /\ ~settings.use_fixed_port
    /\ \E p \in RandInt(10000, 65000) : Publish(p)
    /\ branch' = "fallback"
    /\ UNCHANGED <<settings, nallocs, manager_port, shared_handler, script_port,
                   addon_pc>>
    /\ UNCHANGED <<regVars, cliVars, mgrVars, postVars, asyncVars, platVars>>

\* NotificationManager({**settings, "_port": q}) (q = 0: no such entry):
\* self.http_port = settings.get("_port") or get_toast_notify_port(settings);
\* with a predetermined port the manager publishes it at once
Construct(q) ==
    /\ addon_pc = "idle"
    /\ gpc = "idle"
    /\ manager_port = 0
    /\ settings' = [settings EXCEPT !.predetermined = q]
    /\ IF q # 0
       THEN /\ manager_port' = q
            /\ env_port' = Str(q)
            /\ UNCHANGED <<gpc, port, branch, nallocs, addon_pc>>
       ELSE /\ GetPortEnter
            /\ addon_pc' = "m_init"
            /\ UNCHANGED manager_port
    /\ UNCHANGED <<shared_handler, script_port>>
    /\ UNCHANGED <<regVars, cliVars, mgrVars, postVars, asyncVars, platVars>>

\* get_toast_notify_port returned into __init__:
\* os.environ["AYON_TOASTNOTIFY_PORT"] = str(self.http_port)
ConstructPublish ==
    /\ addon_pc = "m_init"
    /\ gpc = "idle"
    /\ manager_port' = port
    /\ env_port' = Str(port)
    /\ addon_pc' = "idle"
    /\ UNCHANGED <<settings, gpc, port, branch, nallocs, shared_handler,
                   script_port>>
    /\ UNCHANGED <<regVars, cliVars, mgrVars, postVars, asyncVars, platVars>>

PortNext ==
    \/ GetPortCall
    \/ GetPortFixed
    \/ GetPortProbe
    \/ GetPortFallback
    \/ \E q \in {0, 7000} : Construct(q)
    \/ ConstructPublish

\* a process before any allocation: nothing or a stale port is published,
\* and http_port may be in use by another process
PortInit ==
    /\ RegInit /\ MgrInit /\ CliInit /\ PostIdle /\ AsyncIdle /\ PlatIdle
    /\ foreign \in BOOLEAN
    /\ platform_handler = "present"
    /\ client_handler = "present"
    /\ settings \in SettingsSet
    /\ env_port \in {None, "1"}
    /\ gpc = "idle"
    /\ port = 0
    /\ branch = "none"
    /\ nallocs = 0
    /\ manager_port = 0
    /\ shared_handler = None
    /\ script_port = None
    /\ addon_pc = "idle"

SpecPort == PortInit /\ [][PortNext]_vars

\* ToastNotifyAddon: initialize, tray_init, tray_start, tray_exit (Windows)
\* ======================================================================
\* ToastNotifyWindowsPlatform.__init__ writes ToastHandler.ps1 with the port
\* settings.get("port", os.environ.get("AYON_TOASTNOTIFY_PORT", "5127"));
\* the addon settings have no "port" entry
ScriptPort == IF env_port # None THEN env_port ELSE Str(5127)

\* initialize: a stale published port is popped
Initialize ==
    /\ addon_pc = "created"
    /\ addon_pc' = "initialized"
    /\ env_port' = None
    /\ UNCHANGED <<settings, gpc, port, branch, nallocs, manager_port,
                   shared_handler, script_port>>
    /\ UNCHANGED <<regVars, cliVars, mgrVars, postVars, asyncVars, platVars>>

\* tray_init, first part: when BurntToast could be installed the shared
\* platform handler is created, which writes the protocol handler script;
\* then tray_init pops the published port and calls get_toast_notify_port
TrayInitHandler(install_success) ==
    /\ addon_pc = "initialized"
    /\ IF install_success
       THEN /\ shared_handler' = "present"
            /\ script_port' = ScriptPort
       ELSE UNCHANGED <<shared_handler, script_port>>
    /\ GetPortEnter
    /\ addon_pc' = "t_port"
    /\ UNCHANGED <<settings, manager_port>>
    /\ UNCHANGED <<regVars, cliVars, mgrVars, postVars, asyncVars, platVars>>

\* tray_init, last part: settings["_port"] = port and
\* NotificationManager(settings, platform_handler=shared handler); a manager
\* given no handler creates its own after it has published its port
TrayInitManager ==
    /\ addon_pc = "t_port"
    /\ gpc = "idle"
    /\ settings' = [settings EXCEPT !.predetermined = port]
    /\ manager_port' = port
    /\ env_port' = Str(port)
    /\ IF shared_handler # None
       THEN /\ platform_handler' = shared_handler
            /\ UNCHANGED script_port
       ELSE /\ platform_handler' = "present"
            /\ script_port' = Str(port)
    /\ addon_pc' = "tray_inited"
    /\ UNCHANGED <<gpc, port, branch, nallocs, shared_handler>>
    /\ UNCHANGED <<regVars, cliVars, postVars, asyncVars, platVars>>
    /\ UNCHANGED <<running, thread, server, listening, connq, is_shut_down,
                   shutdown_request, wpc, wreq, wresp, mpc, stopInfo, nstarts,
                   nstops, nexts, socks, foreign>>

\* tray_start: self.notification_manager.start() (the health check that
\* follows only logs)
TrayStart ==
    /\ addon_pc = "tray_inited"
    /\ nstarts = 0
    /\ Start

\* tray_exit: self.notification_manager.stop() ...
TrayExitStop ==
    /\ addon_pc = "tray_inited"
    /\ nstarts > 0
    /\ nstops = 0
    /\ StopCall

\* ... and when stop() has returned: the platform handler is cleaned up and
\* dropped, the published port is popped, self.settings = {}
TrayExitClear ==
    /\ addon_pc = "tray_inited"
    /\ stopInfo.state = "returned"
    /\ shared_handler' = None
    /\ env_port' = None
    /\ addon_pc' = "exited"
    /\ UNCHANGED <<settings, gpc, port, branch, nallocs, manager_port, script_port>>
    /\ UNCHANGED <<regVars, cliVars, mgrVars, postVars, asyncVars, platVars>>

AddonNext ==
    \/ Initialize
    \/ \E ok \in BOOLEAN : TrayInitHandler(ok)
    \/ GetPortFixed
    \/ GetPortProbe
    \/ TrayInitManager
    \/ TrayStart
    \/ WorkerStep
    \/ TrayExitStop
    \/ StopStep
    \/ TrayExitClear

\* a process in which the addon object has just been created
AddonInit ==
    /\ RegInit /\ MgrInit /\ CliInit /\ PostIdle /\ AsyncIdle /\ PlatIdle
    /\ foreign \in BOOLEAN
    /\ platform_handler = None
    /\ client_handler = "present"
    /\ settings \in SettingsSet
    /\ env_port \in {None, "1"}
    /\ gpc = "idle"
    /\ port = 0
    /\ branch = "none"
    /\ nallocs = 0
    /\ manager_port = 0
    /\ shared_handler = None
    /\ script_port = None
    /\ addon_pc = "created"

SpecAddon == AddonInit /\ [][AddonNext]_vars

\* threads that can take a step eventually take it
FairAddon ==
    AddonInit /\ [][AddonNext]_vars
        /\ WF_vars(WorkerStep) /\ WF_vars(StopStep) /\ WF_vars(TrayExitClear)

\* ------------------------------------------------------ more client claims
\* C22: a send_notification call without handler makes at most two POST
\* /notify attempts; the second one is made only after the first ended in a
\* connection error or a timeout; and after two failed attempts the call
\* makes no further attempt and goes on to the in-process fallback.
C22_OneRetryAfterConnectionFailure ==
    call.on_action = None =>
        /\ call.attempts <= max_retries + 1
        /\ call.attempts = 2 => call.fails[1] \in {"refused", "timeout"}
        /\ Len(call.fails) = 2 =>
               \/ cpc \in {"c_except", "c_fallback"}
               \/ call.done /\ (client_handler # None => call.cliDisp = 1)

\* C23: the asynchronous send_notification returns True to its caller when
\* the thread is started, before the dispatch; and a call made with a
\* completion callback invokes it exactly once: never more than once, and
\* when the thread has ended, once with the result of the client's
\* send_notification.
C23_AsyncCallbackExactlyOnce ==
    /\ apc # "idle" => acall.returned = "true"
    /\ Len(acall.args) <= 1
    /\ (apc = "a_done" /\ acall.callback # None) =>
           acall.args = <<call.result>>

\* ------------------------------------------------ port allocation claims
Returned == gpc = "idle" /\ nallocs > 0

\* C24: with use_fixed_port = true every get_toast_notify_port call returns
\* settings.http_port as it is, whether or not the port is in use; so do two
\* successive calls with http_port = 5127.
C24_FixedPortVerbatim ==
    (settings.use_fixed_port /\ Returned) =>
        (branch = "fixed" /\ port = settings.http_port)

\* the second of two calls returned 5127 although another process holds it
C24_Witness ==
    /\ settings.use_fixed_port /\ settings.http_port = 5127
    /\ Returned /\ nallocs = 2
    /\ port = 5127
    /\ foreign

\* C25: when a get_toast_notify_port call has returned, the published port is
\* the port it returned, whatever was published before; and once the manager
\* is constructed the published port is the manager's http_port.
C25_PublishedPortIsCurrent ==
    /\ (Returned /\ manager_port = 0) => env_port = Str(port)
    /\ manager_port # 0 => env_port = Str(manager_port)

\* a second call replaced what the first one published, and a manager given
\* a predetermined port replaced what the allocation had published
C25_Witness ==
    /\ nallocs = 2 /\ Returned
    /\ branch = "probe"
    /\ manager_port = 7000
    /\ env_port = "7000"

\* C26: a port returned after the probe socket could not be bound lies in
\* 10000 <= p < 65000.
C26_FallbackPortBelow65000 ==
    (Returned /\ branch = "fallback") => (10000 <= port /\ port < 65000)

\* ------------------------------------------------------------ addon claims
\* C27: in every run initialize, tray_init, tray_start, tray_exit, whether
\* the server runs or failed to bind, tray_exit completes and the published
\* port is then absent.
C27_TrayExitClearsPort ==
    (stopInfo.state = "called") ~> (addon_pc = "exited" /\ env_port = None)

\* C28: after initialize, tray_init and tray_start the port written into the
\* protocol handler script, which its GET /action/{id}/{action} call uses, is
\* the port the server listens on, in random-port and in fixed-port mode.
C28_ScriptPortIsServerPort ==
    (listening # 0 /\ script_port # None) => script_port = Str(manager_port)

\* ======================================================================
\* ToastNotifyWindowsPlatform.show_notification, reached through the
\* client's in-process dispatch; the BurntToast module may be missing
\* ======================================================================
WindowsInit ==
    /\ RegInit /\ MgrInit /\ CliInit /\ PostIdle /\ AsyncIdle /\ AddonIdle
    /\ WatchIdle
    /\ foreign = FALSE
    /\ client_handler = "present"
    /\ burnt_toast_available \in BOOLEAN

WindowsNext ==
    \/ \E f \in OnActions, a \in ActionArgs : ClientSend(f, a)
    \/ ClientPost
    \/ ClientExcept
    \/ \E o \in Outcomes : ClientFallback(o)

SpecWindows == WindowsInit /\ [][WindowsNext]_vars

\* the registry entries a step touches
Touched == {i \in Ids : callbacks'[i] # callbacks[i] \/ regCount'[i] # regCount[i]}

\* C29: a call of the Windows show_notification that enters its body adds
\* exactly one registry entry, under an id never used before, exactly when
\* the BurntToast module is available, the action list is non-empty and
\* on_action is not null; otherwise the registry stays as it was, and
\* without the module the call returns false.
C29_RegistersExactlyWhenAvailable ==
    [][(cpc = "c_fallback" /\ cpc' = "idle" /\ call'.cliOutcome # "raise") =>
          IF /\ burnt_toast_available
             /\ call.actions = "some"
             /\ call.on_action # None
          THEN /\ Cardinality(Touched) = 1
               /\ \A i \in Touched :
                     /\ regCount[i] = 0 /\ callbacks[i] = None
                     /\ regCount'[i] = 1 /\ callbacks'[i] # None
                     /\ call'.regId = i
          ELSE /\ Touched = {}
               /\ call'.regId = None
               /\ ~burnt_toast_available => call'.result = "false"]_vars

\* a call with a handler and buttons ended with its handler registered
C29_Witness ==
    /\ call.done
    /\ burnt_toast_available
    /\ call.actions = "some" /\ call.on_action # None
    /\ call.regId # None
    /\ regCount[call.regId] = 1

\* ======================================================================
\* ToastNotifyMacOSPlatform: show_notification with the alerter helper and
\* the thread running _process_alerter_response
\* ======================================================================
\* what the helper writes to the response file when the notification ends
Responses == {"@CLOSED", "@TIMEOUT", "@CONTENTCLICKED", "@ACTIONCLICKED:Yes",
              "Yes"}

\* what show_notification does once the helper path is known:
\* process.wait(timeout=0.5) on the "open" command gives a non-zero return
\* code, return code 0 within the half second, or TimeoutExpired; "raised"
\* is an exception on the way (Popen), "nopath" no helper path at all
Launches == {"nopath", "raised", "failed", "exited", "running"}

\* the argument on_action is called with for a response, None = no call
HandlerArg(response) ==
    IF response \in {"@CLOSED", "@TIMEOUT"} THEN None
    ELSE IF response = "@CONTENTCLICKED" THEN "default"
    ELSE response

\* _show_osascript_notification: true when osascript exits with code 0
Osascript(nr) == IF nr THEN "true" ELSE "false"

\* self._notification_failures after a failure in warned mode: the third
\* failure resets the counter and prompts instead of notifying
Prompts(failures) == failures + 1 >= 3

\* does the call end in _show_osascript_notification
Native(warned, launch, failures) ==
    \/ ~warned
    \/ launch = "failed"
    \/ launch = "raised" /\ ~Prompts(failures)

\* what the call returns; "none" is Python's None of a function that ends
\* without a return statement
ShowResult(warned, launch, failures, nr) ==
    IF Native(warned, launch, failures) THEN Osascript(nr)
    ELSE IF launch = "running" THEN "true"
    ELSE IF launch = "exited" THEN "none"
    ELSE "false"

\* show_notification: without the warned mode osascript only; else
\* tempfile.NamedTemporaryFile(delete=False) creates the response file,
\* empty, before the helper is launched; a non-zero return code unlinks it;
\* only TimeoutExpired starts the watcher thread
MacShow(on_action, launch, nr) ==
    /\ watch.pc \in {"none", "done"}
    /\ watch.n < MaxShows
    /\ ~cleanup_event
    /\ launch = "nopath" => ~watch.alerter_path
    /\ LET warned  == watch.warned
           started == warned /\ launch # "nopath"
           failed  == warned /\ launch \in {"nopath", "raised"}
       IN /\ response_file' = IF started /\ launch # "failed" THEN "" ELSE None
          /\ helper' = IF started /\ launch \in {"exited", "running"}
                       THEN "running" ELSE "none"
          /\ watch' = [NoWatch EXCEPT
                         !.n = watch.n + 1,
                         !.warned = warned,
                         !.alerter_path = watch.alerter_path \/ started,
                         !.failures = IF ~failed THEN watch.failures
                                      ELSE IF Prompts(watch.failures) THEN 0
                                      ELSE watch.failures + 1,
                         !.launch = IF warned THEN launch ELSE None,
                         !.native = Native(warned, launch, watch.failures),
                         !.result = ShowResult(warned, launch,
                                               watch.failures, nr),
                         !.started = IF started /\ launch = "running"
                                     THEN 1 ELSE 0,
                         !.pc = IF started /\ launch = "running"
                                THEN "m_wait" ELSE "done",
                         !.max_wait = max_wait,
                         !.on_action = on_action]
    /\ UNCHANGED <<burnt_toast_available, cleanup_event>>
    /\ UNCHANGED <<regVars, cliVars, mgrVars, env_port, postVars, asyncVars,
                   addonVars>>

\* the helper ends and writes the user's choice to the file given by -output
HelperWrite(r) ==
    /\ helper = "running"
    /\ response_file' = r
    /\ helper' = "wrote"
    /\ UNCHANGED <<burnt_toast_available, cleanup_event, watch>>
    /\ UNCHANGED <<regVars, cliVars, mgrVars, env_port, postVars, asyncVars,
                   addonVars>>

\* the response file lies in the shared temporary directory: another
\* process removes it before the helper has written to it
FileRemoved ==
    /\ response_file # None
    /\ helper = "running"
    /\ watch.pc = "m_wait"
    /\ response_file' = None
    /\ UNCHANGED <<burnt_toast_available, helper, cleanup_event, watch>>
    /\ UNCHANGED <<regVars, cliVars, mgrVars, env_port, postVars, asyncVars,
                   addonVars>>

\* time.sleep(1) ; max_wait -= 1
PollsLeftSame(m) == m

PollsLeft(m) == m - 1

\* while max_wait > 0 and not os.path.exists(response_path):
\*     if self._cleanup_event.is_set(): return
\*     time.sleep(1) ; max_wait -= 1
WatchPoll ==
    /\ watch.pc = "m_wait"
    /\ IF watch.max_wait > 0 /\ response_file = None
       THEN IF cleanup_event
            THEN watch' = [watch EXCEPT !.pc = "done"]
            ELSE watch' = [watch EXCEPT !.max_wait = PollsLeft(@)]
       ELSE watch' = [watch EXCEPT !.pc = "m_read"]
    /\ UNCHANGED <<burnt_toast_available, response_file, helper, cleanup_event>>
    /\ UNCHANGED <<regVars, cliVars, mgrVars, env_port, postVars, asyncVars,
                   addonVars>>

\* no file: return; else read and strip the file, unlink it, and call
\* on_action for every response but @CLOSED and @TIMEOUT
WatchRead ==
    /\ watch.pc = "m_read"
    /\ IF response_file = None
       THEN /\ watch' = [watch EXCEPT !.pc = "done"]
            /\ UNCHANGED response_file
       ELSE /\ watch' = [watch EXCEPT
                           !.pc = "done",
                           !.response = response_file,
                           !.written = (helper = "wrote"),
                           !.invoked =
                              IF watch.on_action # None
                                 /\ HandlerArg(response_file) # None
                              THEN Append(@, HandlerArg(response_file))
                              ELSE @]
            /\ response_file' = None
    /\ UNCHANGED <<burnt_toast_available, helper, cleanup_event>>
    /\ UNCHANGED <<regVars, cliVars, mgrVars, env_port, postVars, asyncVars,
                   addonVars>>

\* cleanup(): self._cleanup_event.set(), before the threads are joined
MacCleanup ==
    /\ ~cleanup_event
    /\ watch.pc # "none"
    /\ cleanup_event' = TRUE
    /\ UNCHANGED <<burnt_toast_available, response_file, helper, watch>>
    /\ UNCHANGED <<regVars, cliVars, mgrVars, env_port, postVars, asyncVars,
                   addonVars>>

\* cleanup() ends with os._exit(0) on Darwin: the watcher thread ends with
\* the process, wherever it is
MacExit ==
    /\ cleanup_event
    /\ watch.pc \in {"m_wait", "m_read"}
    /\ watch' = [watch EXCEPT !.pc = "killed"]
    /\ UNCHANGED <<burnt_toast_available, response_file, helper, cleanup_event>>
    /\ UNCHANGED <<regVars, cliVars, mgrVars, env_port, postVars, asyncVars,
                   addonVars>>

MacNext ==
    \/ \E f \in OnActions, l \in Launches, nr \in BOOLEAN : MacShow(f, l, nr)
    \/ \E r \in Responses : HelperWrite(r)
    \/ FileRemoved
    \/ WatchPoll
    \/ WatchRead
    \/ MacCleanup
    \/ MacExit

MacInit ==
    /\ RegInit /\ MgrInit /\ CliInit /\ AsyncIdle /\ AddonIdle
    /\ burnt_toast_available = TRUE
    /\ response_file = None
    /\ helper = "none"
    /\ cleanup_event = FALSE
    /\ \E b \in BOOLEAN : watch = [NoWatch EXCEPT !.warned = b]
    /\ foreign = FALSE
    /\ notification_timeout = 5
    /\ system = "darwin"
    /\ notification_data = NoData
    /\ dispatch = NoDispatch

SpecMac == MacInit /\ [][MacNext]_vars

\* the watcher is a thread of its own: it keeps being scheduled
FairMac ==
    MacInit /\ [][MacNext]_vars /\ WF_vars(WatchPoll) /\ WF_vars(WatchRead)

\* C30: the macOS watcher calls the handler at most once per notification,
\* and only after the helper has written the user's choice; it does not
\* call it for @CLOSED, for @TIMEOUT, or when the helper wrote nothing.
C30_HandlerOnlyAfterChoice ==
    /\ Len(watch.invoked) <= 1
    /\ watch.invoked # <<>> =>
          /\ watch.written
          /\ watch.response \notin {"@CLOSED", "@TIMEOUT"}

\* C31: every invocation of an action handler on macOS passes the id of the
\* clicked action or the sentinel "default": never the raw response text
\* and never the empty string.
C31_HandlerGetsActionIdOrDefault ==
    \A k \in 1..Len(watch.invoked) : watch.invoked[k] \in {"Yes", "default"}

\* C32: in the warned mode of the macOS variant, a call that found no helper
\* path, or whose helper process failed within the grace period, has
\* attempted the native notification call.
C32_NativeFallbackWhenHelperFails ==
    (watch.warned /\ watch.launch \in {"nopath", "failed"}) => watch.native

\* C39: on every outcome of launching the helper show_notification returns
\* a boolean, and when the launch did not fail it returns true with exactly
\* one watcher thread started.
C39_LaunchReturnsBoolean ==
    (watch.warned /\ watch.launch \in {"running", "exited", "failed"}) =>
        /\ watch.result \in {"true", "false"}
        /\ watch.launch # "failed" => watch.result = "true" /\ watch.started = 1

LinuxParams == {"title", "message", "icon", "timeout", "actions"}

\* the keywords of the uniform call: both callers pass on_action, null or
\* not, and the current platform's option overrides
UniformKeywords(options) ==
    {"title", "message", "icon", "timeout", "actions", "on_action"} \cup options

\* the call itself: an undeclared keyword is a TypeError before the body
\* runs; else false without notify-send, else true exactly for exit code 0
LinuxShow(keywords, available, rc) ==
    IF ~(keywords \subseteq LinuxParams) THEN "raise"
    ELSE IF ~available THEN "false"
    ELSE IF rc = 0 THEN "true" ELSE "false"

\* one dispatch to the Linux handler: via the manager, which catches the
\* handler's exception and returns False, or via the client, which does too
LinuxDispatch(via, on_action, options, available, rc) ==
    /\ system = "linux"
    /\ dispatch.n < MaxShows
    /\ via = "server" => on_action = None
    /\ LET o == LinuxShow(UniformKeywords(options), available, rc)
       IN dispatch' =
            [NoDispatch EXCEPT
               !.n = dispatch.n + 1,
               !.called = TRUE,
               !.options = options,
               !.via = via,
               !.on_action = on_action,
               !.available = available,
               !.rc = rc,
               !.ran = (o # "raise" /\ available),
               !.result = IF via = "server"
                          THEN ManagerShow(platform_handler, o)
                          ELSE FallbackResult(o)]
    /\ UNCHANGED <<notification_timeout, system, notification_data>>
    /\ UNCHANGED <<regVars, cliVars, mgrVars, env_port, asyncVars, addonVars, platVars>>

LinuxNext ==
    \E via \in {"server", "client"}, f \in OnActions,
       options \in SUBSET OptionKeys, available \in BOOLEAN, rc \in {0, 1} :
          LinuxDispatch(via, f, options, available, rc)

LinuxInit ==
    /\ RegInit /\ MgrInit /\ CliInit /\ AsyncIdle /\ AddonIdle /\ PlatIdle
    /\ foreign = FALSE
    /\ platform_handler = "present"
    /\ client_handler = "present"
    /\ notification_timeout = 5
    /\ system = "linux"
    /\ notification_data = NoData
    /\ dispatch = NoDispatch

SpecLinux == LinuxInit /\ [][LinuxNext]_vars

\* C33: a dispatch to the Linux variant through the uniform call, with no
\* option overrides, returns true exactly when notify-send exits with code
\* 0, whether or not a handler was passed.
C33_LinuxResultIsExitCode ==
    (dispatch.n > 0 /\ dispatch.options = {}) =>
        (dispatch.result = "true" <=> (dispatch.available /\ dispatch.rc = 0))

\* worker w is inside a request handler
Handling(w) == wpc[w] \in {"w_handle", "w_resolve"}

C35_ResolveIsAtomic ==
    /\ [](\A t, u \in Threads :
            (/\ t # u
             /\ HandleDone(t) /\ HandleDone(u)
             /\ cur[t].id = cur[u].id
             /\ regCount[cur[t].id] = 1
             /\ cur[t].reg /\ cur[u].reg)
            => /\ fired[cur[t].id] = 1
               /\ (cur[t].ret = "true") # (cur[u].ret = "true"))
    /\ [][\A t \in Threads :
             (tpc[t] = "r_store" /\ tpc'[t] = "idle") =>
                 /\ callbacks'[cur[t].id] = cur[t].h
                 /\ \A j \in Ids \ {cur[t].id} : callbacks'[j] = callbacks[j]]_vars

\* ======================================================================
\* a handler that shows a follow-up interactive notification: invoked by
\* handle_action_callback, it calls register_action_callback itself
\* ======================================================================
\* callback(action_id) runs inside `with _action_callback_lock:`; the nested
\* register_action_callback(i, h) comes to its own `with` on the same thread
HandlerReenters(t, i, h) ==
    /\ tpc[t] = "h_running"
    /\ cur[t].cb = "hReenter"
    /\ cur' = [cur EXCEPT ![t] = [NoCall EXCEPT !.op = "register", !.id = i,
                                                !.h = h, !.cb = "hReenter"]]
    /\ tpc' = [tpc EXCEPT ![t] = "r_acquire"]
    /\ UNCHANGED <<callbacks, lock, fired, regCount, nops>>
    /\ UNCHANGED <<srvVars, cliVars>>

ReenterNext ==
    \/ RegNext
    \/ \E t \in Threads, i \in Ids : RegisterCall(t, i, "hReenter")
    \/ \E t \in Threads, i \in Ids, h \in Handlers : HandlerReenters(t, i, h)

SpecReenter == RegistryInit /\ [][ReenterNext]_vars

\* C37: a handler that calls register_action_callback while it is being
\* invoked completes: no thread ever waits for the registry lock while
\* holding it.
C37_ReentrantHandlerCompletes ==
    \A t \in Threads : ~(lock = t /\ tpc[t] \in {"r_acquire", "h_acquire"})

\* C38: a Windows interactive dispatch that ends with show_notification
\* returning false leaves the registry as it was before the call.
C38_FailedDispatchRegistersNothing ==
    [][(/\ cpc = "c_fallback" /\ cpc' = "idle"
        /\ client_handler # None
        /\ call'.cliOutcome = "false")
       => Touched = {}]_vars

====
